---- MODULE Spec2Model ----
(***************************************************************************)
(* Model of the Gemini Style Remix front end: the App component's state    *)
(* and handlers (src/App.tsx lines 7-133 and the controls of its render)   *)
(* and the two service functions generateStylizedImage and                 *)
(* removeBackground (src/App.tsx lines 384-568).                           *)
(*                                                                         *)
(* A string is a sequence of tokens.  The tokens are chosen so that every  *)
(* substring the code searches for or splits on is a whole token or a run  *)
(* of whole tokens: "base64" and "," are two tokens, so that both          *)
(* includes("base64,") and split(',') see the comma; a mime type is the    *)
(* token "image/" followed by a subtype token, so that startsWith          *)
(* ('image/') is a test of the first token.  undefined, null and the empty *)
(* string are all the empty sequence: the code only ever tests them for    *)
(* truthiness.                                                             *)
(***************************************************************************)
EXTENDS Integers, Sequences, FiniteSets, TLC

VARIABLES
    status,               \* useState<AppStatus>
    uploadedImage,        \* useState<UploadedFile | null>
    prompt,               \* useState<string>
    influence,            \* useState<number>
    characterDescription, \* useState<string>
    sceneAction,          \* useState<string>
    quality,              \* useState<'standard' | 'high'>
    generatedImages,      \* useState<GeneratedImage[]>
    errorMessage,         \* useState<string | null>
    dialogOpen,           \* the browser's file chooser of the hidden <input type="file"> is open
    apiKey,               \* process.env.API_KEY is set (fixed by the build)
    now,                  \* the clock read by Date.now()
    calls,                \* the asynchronous calls that are outstanding, oldest first
    done,                 \* the last call of generateStylizedImage / removeBackground that returned
    successLog            \* history: every GeneratedImage created so far, oldest first

vars == <<status, uploadedImage, prompt, influence, characterDescription, sceneAction,
          quality, generatedImages, errorMessage, dialogOpen, apiKey, now, calls, done,
          successLog>>

appVars == <<status, uploadedImage, prompt, influence, characterDescription, sceneAction,
             quality, generatedImages, errorMessage, dialogOpen, now, successLog>>

-----------------------------------------------------------------------------
(* Bounds of the model *)

MaxGenerations == 5   \* successful generations in one session
MaxParts == 3         \* parts in the first candidate of a response
MaxMessageLen == 2    \* tokens in the message of a transport error

-----------------------------------------------------------------------------
(* Strings *)

\* s has pat at position i (1-based)
MatchesAt(s, pat, i) ==
    /\ i + Len(pat) - 1 <= Len(s)
    /\ \A k \in 1..Len(pat) : s[i + k - 1] = pat[k]

\* String.prototype.includes
Includes(s, pat) == \E i \in 1..(Len(s) + 1) : MatchesAt(s, pat, i)

\* String.prototype.indexOf, 1-based; 0 when pat does not occur
IndexOf(s, pat) ==
    IF Includes(s, pat)
    THEN CHOOSE i \in 1..(Len(s) + 1) :
            /\ MatchesAt(s, pat, i)
            /\ \A j \in 1..(i - 1) : ~MatchesAt(s, pat, j)
    ELSE 0

\* String.prototype.split with a non-empty separator: the sequence of pieces
RECURSIVE Split(_, _)
Split(s, sep) ==
    IF ~Includes(s, sep)
    THEN <<s>>
    ELSE LET i == IndexOf(s, sep)
         IN  <<SubSeq(s, 1, i - 1)>> \o Split(SubSeq(s, i + Len(sep), Len(s)), sep)

\* String.prototype.startsWith
StartsWith(s, pat) == MatchesAt(s, pat, 1)

WhiteSpace == {" "}

\* String.prototype.trim
RECURSIVE Trim(_)
Trim(s) ==
    IF s = <<>> THEN s
    ELSE IF Head(s) \in WhiteSpace THEN Trim(Tail(s))
    ELSE IF s[Len(s)] \in WhiteSpace THEN Trim(SubSeq(s, 1, Len(s) - 1))
    ELSE s

\* Array.prototype.join over an array of strings
RECURSIVE Join(_, _)
Join(arr, sep) ==
    IF arr = <<>> THEN <<>>
    ELSE IF Len(arr) = 1 THEN arr[1]
    ELSE arr[1] \o sep \o Join(Tail(arr), sep)

\* Array.prototype.slice(0, n)
Slice0(arr, n) == SubSeq(arr, 1, IF Len(arr) < n THEN Len(arr) ELSE n)

\* a || b on strings
OrElse(a, b) == IF a /= <<>> THEN a ELSE b

-----------------------------------------------------------------------------
(* Literals of the service module *)

Base64Marker == <<"base64", ",">>
DefaultMime == <<"image/", "png">>

GuidanceIgnore == <<"Ignore the input image structure entirely. Composition should be determined solely by the prompt.">>
GuidanceLoose == <<"Use the input image as a loose reference. You may significantly alter the pose and structure.">>
GuidanceMaintain == <<"Maintain the general structure and main subject placement of the input image, but adapt details to the style.">>
GuidanceStrict == <<"Strictly adhere to the exact structure, pose, and composition of the input image. Only change the artistic rendering.">>

aestheticBase == <<"Aesthetic: Vintage, sepia-toned, or aged photograph look with high detail and film grain.">>

MsgMissingKey == <<"API Key", " is missing. Please configure it in your .env file.">>
MsgDeclinedPrefix == <<"Model declined to generate image: ">>
MsgEmptyResponse == <<"The model returned an empty response. Please try a different prompt or image.">>
MsgUnknown == <<"An unknown error occurred.">>
MsgEntityNotFound == <<"Requested entity was not found.">>
MsgInvalidKey == <<"Invalid or missing API Key. Please check your .env file.">>
MsgInvalidRequest == <<"The request was invalid. The image might be too large or the prompt flagged.">>
MsgOverloaded == <<"The service is currently overloaded. Please try again in a moment.">>
MsgSafety == <<"Generation blocked by safety filters. Please adjust your prompt or image.">>
MsgBgFailed == <<"Failed to remove background.">>
MsgBgWrapper == <<"Background removal failed: ">>
bgPrompt == <<"Remove the background from this image. Keep the main subject exactly as is, but place it on a solid white background.">>

\* the substrings the error classification looks for, each a token of a message
EntityMarker == <<"Requested entity was not found">>

-----------------------------------------------------------------------------
(* generateStylizedImage: the request *)

\* `data:${mime};base64,${data}`
DataUri(mime, data) == <<"data", ":">> \o mime \o <<";">> \o Base64Marker \o data

\* CleanBase64 taking the piece before the marker
CleanBase64_WrongPiece(base64Data) ==
    IF Includes(base64Data, Base64Marker)
    THEN Split(base64Data, Base64Marker)[1]
    ELSE base64Data


CleanBase64(base64Data) ==
    IF Includes(base64Data, Base64Marker)
    THEN Split(base64Data, Base64Marker)[2]
    ELSE base64Data

\* Guidance with the boundary 30 put in the lower band
Guidance_UpperBoundaryLow(infl) ==
    IF infl = 0 THEN GuidanceIgnore
    ELSE IF infl <= 30 THEN GuidanceLoose
    ELSE IF infl < 70 THEN GuidanceMaintain
    ELSE GuidanceStrict


Guidance(infl) ==
    IF infl = 0 THEN GuidanceIgnore
    ELSE IF infl < 30 THEN GuidanceLoose
    ELSE IF infl < 70 THEN GuidanceMaintain
    ELSE GuidanceStrict

\* PromptParts pushing the scene section before the character section
PromptParts_SceneFirst(p, cd, sa) ==
    (IF Trim(sa) /= <<>> THEN << <<"Scene & Action: ">> \o sa \o <<".">> >> ELSE <<>>)
    \o (IF Trim(cd) /= <<>> THEN << <<"Subject Description: ">> \o cd \o <<".">> >> ELSE <<>>)
    \o << <<"Style & Atmosphere: ">> \o p \o <<". ">> \o aestheticBase >>


PromptParts(p, cd, sa) ==
    (IF Trim(cd) /= <<>> THEN << <<"Subject Description: ">> \o cd \o <<".">> >> ELSE <<>>)
    \o (IF Trim(sa) /= <<>> THEN << <<"Scene & Action: ">> \o sa \o <<".">> >> ELSE <<>>)
    \o << <<"Style & Atmosphere: ">> \o p \o <<". ">> \o aestheticBase >>

FinalPrompt(p, infl, cd, sa) ==
    Join(PromptParts(p, cd, sa), <<"\n\n">>)
    \o <<"\n\n", "IMPORTANT INSTRUCTION: ">> \o Guidance(infl)
    \o <<" (Structural Adherence: ", ToString(infl), "%)">>

ModelFor(q) == IF q = "high" THEN "gemini-3-pro-image-preview" ELSE "gemini-2.5-flash-image"

ConfigFor(q) == IF q = "high" THEN [imageSize |-> "2K"] ELSE [empty |-> TRUE]

\* the argument of ai.models.generateContent
GenerateRequest(base64Data, mimeType, p, infl, cd, sa, q) ==
    [model |-> ModelFor(q),
     text |-> FinalPrompt(p, infl, cd, sa),
     data |-> CleanBase64(base64Data),
     mimeType |-> mimeType,
     config |-> ConfigFor(q)]

-----------------------------------------------------------------------------
(* generateStylizedImage: the response *)

\* A part of a candidate's content is [kind |-> "image", data, mimeType],
\* [kind |-> "text", text] or [kind |-> "other"] (neither inlineData nor text).
\* part.inlineData is an object, truthy whenever present; part.text is a string.
HasInlineData(part) == part.kind = "image"
PartText(part) == IF part.kind = "text" THEN part.text ELSE <<>>

\* ScanStep keeping the first image instead of the last
ScanStep_FirstWins(acc, part) ==
    IF HasInlineData(part)
    THEN IF acc.imageUrl = <<>>
         THEN [acc EXCEPT !.imageUrl = DataUri(OrElse(part.mimeType, DefaultMime), part.data)]
         ELSE acc
    ELSE IF PartText(part) /= <<>>
    THEN [acc EXCEPT !.textResponse = part.text]
    ELSE acc

\* one turn of the loop over content.parts
ScanStep(acc, part) ==
    IF HasInlineData(part)
    THEN [acc EXCEPT !.imageUrl = DataUri(OrElse(part.mimeType, DefaultMime), part.data)]
    ELSE IF PartText(part) /= <<>>
    THEN [acc EXCEPT !.textResponse = part.text]
    ELSE acc

RECURSIVE ScanFrom(_, _)
ScanFrom(acc, parts) ==
    IF parts = <<>> THEN acc ELSE ScanFrom(ScanStep(acc, Head(parts)), Tail(parts))

\* imageUrl and textResponse after the scan of response.candidates[0].content.parts
ScanResponse(candidates) ==
    IF Len(candidates) > 0 /\ candidates[1].hasParts
    THEN ScanFrom([imageUrl |-> <<>>, textResponse |-> <<>>], candidates[1].parts)
    ELSE [imageUrl |-> <<>>, textResponse |-> <<>>]

Returned(imageUrl, text) ==
    [ok |-> TRUE, imageUrl |-> imageUrl, text |-> text, message |-> <<>>, caught |-> <<>>]
Thrown(message, caught) ==
    [ok |-> FALSE, imageUrl |-> <<>>, text |-> <<>>, message |-> message, caught |-> caught]

\* Classify looking for "API key" in either case
Classify_KeyAnyCase(errorMessage0) ==
    LET message == OrElse(errorMessage0, MsgUnknown)
    IN  IF Includes(message, EntityMarker) THEN MsgEntityNotFound
        ELSE IF \/ Includes(message, <<"403">>)
                \/ Includes(message, <<"API key">>)
                \/ Includes(message, <<"API Key">>) THEN MsgInvalidKey
        ELSE IF Includes(message, <<"400">>) THEN MsgInvalidRequest
        ELSE IF Includes(message, <<"503">>) \/ Includes(message, <<"Overloaded">>) THEN MsgOverloaded
        ELSE IF Includes(message, <<"SAFETY">>) THEN MsgSafety
        ELSE message

\* Classify with the key check ahead of the entity-not-found check
Classify_KeyFirst(errorMessage0) ==
    LET message == OrElse(errorMessage0, MsgUnknown)
    IN  IF Includes(message, <<"403">>) \/ Includes(message, <<"API key">>) THEN MsgInvalidKey
        ELSE IF Includes(message, EntityMarker) THEN MsgEntityNotFound
        ELSE IF Includes(message, <<"400">>) THEN MsgInvalidRequest
        ELSE IF Includes(message, <<"503">>) \/ Includes(message, <<"Overloaded">>) THEN MsgOverloaded
        ELSE IF Includes(message, <<"SAFETY">>) THEN MsgSafety
        ELSE message

\* the catch block: the message of the error that is re-thrown
Classify(errorMessage0) ==
    LET message == OrElse(errorMessage0, MsgUnknown)
    IN  IF Includes(message, EntityMarker) THEN MsgEntityNotFound
        ELSE IF Includes(message, <<"403">>) \/ Includes(message, <<"API key">>) THEN MsgInvalidKey
        ELSE IF Includes(message, <<"400">>) THEN MsgInvalidRequest
        ELSE IF Includes(message, <<"503">>) \/ Includes(message, <<"Overloaded">>) THEN MsgOverloaded
        ELSE IF Includes(message, <<"SAFETY">>) THEN MsgSafety
        ELSE message

\* the try block: [threw, message] or [threw, imageUrl, text].  A reply of the
\* remote service is [kind |-> "response", candidates] or the rejection
\* [kind |-> "reject", message].
TryGenerate(keyOk, reply) ==
    IF ~keyOk THEN [threw |-> TRUE, message |-> MsgMissingKey]
    ELSE IF reply.kind = "reject" THEN [threw |-> TRUE, message |-> reply.message]
    ELSE LET scan == ScanResponse(reply.candidates)
         IN  IF scan.imageUrl = <<>>
             THEN IF scan.textResponse /= <<>>
                  THEN [threw |-> TRUE, message |-> MsgDeclinedPrefix \o scan.textResponse]
                  ELSE [threw |-> TRUE, message |-> MsgEmptyResponse]
             ELSE [threw |-> FALSE, imageUrl |-> scan.imageUrl, text |-> scan.textResponse]

\* what a call of generateStylizedImage gives its caller
GenerateOutcome(keyOk, reply) ==
    LET body == TryGenerate(keyOk, reply)
    IN  IF body.threw
        THEN Thrown(Classify(body.message), body.message)
        ELSE Returned(body.imageUrl, body.text)

-----------------------------------------------------------------------------
(* removeBackground *)

\* RemoveBackgroundRequest sending the stored string as it is
RemoveBackgroundRequest_NoStrip(base64Data, mimeType) ==
    [model |-> "gemini-2.5-flash-image",
     text |-> bgPrompt,
     data |-> base64Data,
     mimeType |-> mimeType,
     config |-> [empty |-> TRUE]]


RemoveBackgroundRequest(base64Data, mimeType) ==
    [model |-> "gemini-2.5-flash-image",
     text |-> bgPrompt,
     data |-> IF Includes(base64Data, Base64Marker)
              THEN Split(base64Data, Base64Marker)[2]
              ELSE base64Data,
     mimeType |-> mimeType,
     config |-> [empty |-> TRUE]]

ScanBgStep(imageUrl, part) ==
    IF HasInlineData(part)
    THEN DataUri(OrElse(part.mimeType, DefaultMime), part.data)
    ELSE imageUrl

RECURSIVE ScanBgFrom(_, _)
ScanBgFrom(imageUrl, parts) ==
    IF parts = <<>> THEN imageUrl ELSE ScanBgFrom(ScanBgStep(imageUrl, Head(parts)), Tail(parts))

\* ClassifyBg classifying as the catch block of generateStylizedImage does
ClassifyBg_AsGenerate(errorMessage0) ==
    IF Includes(errorMessage0, EntityMarker) THEN MsgEntityNotFound
    ELSE IF Includes(errorMessage0, <<"403">>) \/ Includes(errorMessage0, <<"API key">>)
    THEN MsgInvalidKey
    ELSE IF Includes(errorMessage0, <<"400">>) THEN MsgInvalidRequest
    ELSE IF Includes(errorMessage0, <<"503">>) \/ Includes(errorMessage0, <<"Overloaded">>)
    THEN MsgOverloaded
    ELSE IF Includes(errorMessage0, <<"SAFETY">>) THEN MsgSafety
    ELSE MsgBgWrapper \o errorMessage0


ClassifyBg(errorMessage0) ==
    IF errorMessage0 /= <<>> /\ Includes(errorMessage0, EntityMarker)
    THEN MsgEntityNotFound
    ELSE MsgBgWrapper \o errorMessage0

RemoveBackgroundOutcome(keyOk, reply) ==
    IF ~keyOk THEN Thrown(MsgMissingKey, <<>>)
    ELSE IF reply.kind = "reject" THEN Thrown(ClassifyBg(reply.message), reply.message)
    ELSE LET imageUrl ==
                 IF Len(reply.candidates) > 0 /\ reply.candidates[1].hasParts
                 THEN ScanBgFrom(<<>>, reply.candidates[1].parts)
                 ELSE <<>>
         IN  IF imageUrl = <<>>
             THEN Thrown(ClassifyBg(MsgBgFailed), MsgBgFailed)
             ELSE Returned(imageUrl, <<>>)

-----------------------------------------------------------------------------
(* Outstanding calls *)

NoRequest == [none |-> TRUE]
NoCall == [op |-> "none"]
NoReply == [kind |-> "none"]

\* generateStylizedImage up to its await: the API key check and the request
GenCall(base64Data, mimeType, p, infl, cd, sa, q) ==
    [op |-> "gen", base64Data |-> base64Data, mimeType |-> mimeType, prompt |-> p,
     influence |-> infl, characterDescription |-> cd, sceneActionDescription |-> sa,
     quality |-> q,
     sent |-> apiKey,
     request |-> IF apiKey
                 THEN GenerateRequest(base64Data, mimeType, p, infl, cd, sa, q)
                 ELSE NoRequest]

\* removeBackground up to its await
BgCall(base64Data, mimeType) ==
    [op |-> "bg", base64Data |-> base64Data, mimeType |-> mimeType,
     sent |-> apiKey,
     request |-> IF apiKey THEN RemoveBackgroundRequest(base64Data, mimeType) ELSE NoRequest]

\* the remote service sends back the inline image part it was sent
EchoReply(request) ==
    [kind |-> "response",
     candidates |-> << [hasParts |-> TRUE,
                        parts |-> << [kind |-> "image", data |-> request.data,
                                      mimeType |-> request.mimeType] >>] >>]

\* the same, the part's mimeType left out
EchoReplyNoMime(request) ==
    [kind |-> "response",
     candidates |-> << [hasParts |-> TRUE,
                        parts |-> << [kind |-> "image", data |-> request.data,
                                      mimeType |-> <<>>] >>] >>]

-----------------------------------------------------------------------------
(* Inputs *)

Payloads == { <<"A">>, <<"B", "A">> }
Mimes == { <<"image/", "png">>, <<"image/", "jpeg">> }

\* an image as a caller may pass it: the bare payload or a data URI of it
ImageArgs == Payloads \cup { DataUri(m, d) : m \in Mimes, d \in Payloads }

MaxFileSize == 5 * 1024 * 1024

\* the files the user may pick: two images (one of exactly the largest size
\* allowed), an image that is too large and a file that is no image
Files ==
    { [name |-> "a.png", type |-> <<"image/", "png">>, size |-> 1024, payload |-> <<"A">>],
      [name |-> "b.jpg", type |-> <<"image/", "jpeg">>, size |-> MaxFileSize,
       payload |-> <<"B", "A">>],
      [name |-> "big.png", type |-> <<"image/", "png">>, size |-> MaxFileSize + 1,
       payload |-> <<"A">>],
      [name |-> "notes.txt", type |-> <<"text/", "plain">>, size |-> 1024,
       payload |-> <<"B">>] }

PromptVintage == <<"Vintage, sepia-toned, aged look.">>
PromptCyberpunk == <<"Cyberpunk, neon lights, high contrast.">>

\* what the controls of the form can be set to
PresetPrompts == { PromptVintage, PromptCyberpunk }
TypedPrompts == { PromptVintage, PromptCyberpunk }
SliderValues == { 0, 50 }
TypedDescriptions == { <<>>, <<"girl">> }
TypedScenes == { <<>>, <<"reading">> }
Qualities == { "standard", "high" }

\* the arguments of the direct calls of generateStylizedImage
WidePrompts == { <<>>, PromptVintage }
WideInfluences == 0..100
WideTexts == { <<>>, <<" ">>, <<"girl">>, <<" ", "girl">> }
NarrowInfluences == { 0, 50 }
NarrowTexts == { <<>>, <<"girl">> }

\* the parts a response may hold
ImageParts ==
    { [kind |-> "image", data |-> <<"B">>, mimeType |-> <<>>],
      [kind |-> "image", data |-> <<"A", "B">>, mimeType |-> <<"image/", "jpeg">>] }
TextParts == { [kind |-> "text", text |-> t] : t \in { <<>>, <<"hi">>, <<"SAFETY">> } }
Parts == ImageParts \cup TextParts \cup { [kind |-> "other"] }

PartSeqs(n) == UNION { [1..k -> Parts] : k \in 0..n }

Candidates ==
    { [hasParts |-> TRUE, parts |-> ps] : ps \in PartSeqs(MaxParts) }
    \cup { [hasParts |-> FALSE, parts |-> <<>>] }

\* a second candidate, which holds an image and a text
OtherCandidate ==
    [hasParts |-> TRUE,
     parts |-> << [kind |-> "image", data |-> <<"A">>, mimeType |-> <<"image/", "png">>],
                  [kind |-> "text", text |-> <<"second">>] >>]

Responses ==
    { [kind |-> "response", candidates |-> <<>>] }
    \cup { [kind |-> "response", candidates |-> <<c>>] : c \in Candidates }
    \cup { [kind |-> "response", candidates |-> <<c, OtherCandidate>>] :
             c \in { d \in Candidates : Len(d.parts) <= 1 } }

MessageTokens ==
    { "Requested entity was not found", "403", "API key", "400", "503", "Overloaded",
      "SAFETY", "fetch failed" }

Rejections ==
    { [kind |-> "reject", message |-> m] :
        m \in UNION { [1..k -> MessageTokens] : k \in 0..MaxMessageLen } }

Replies == Responses \cup Rejections

\* the replies of the remote service in a session of the app
SessionGenReplies ==
    { [kind |-> "response",
       candidates |-> << [hasParts |-> TRUE,
                          parts |-> << [kind |-> "text", text |-> <<"hi">>],
                                       [kind |-> "image", data |-> <<"B">>,
                                        mimeType |-> <<>>] >>] >>],
      [kind |-> "response",
       candidates |-> << [hasParts |-> TRUE,
                          parts |-> << [kind |-> "text", text |-> <<"hi">>] >>] >>],
      [kind |-> "reject", message |-> <<"503">>] }

SessionBgReplies ==
    { [kind |-> "response",
       candidates |-> << [hasParts |-> TRUE, parts |-> <<p>>] >>] : p \in ImageParts }
    \cup { [kind |-> "response", candidates |-> <<>>],
           [kind |-> "reject", message |-> <<"Requested entity was not found", "403">>] }

-----------------------------------------------------------------------------
(* The state after construction *)

Null == [null |-> TRUE]

IDLE == "IDLE"
UPLOADING == "UPLOADING"
GENERATING == "GENERATING"
REMOVING_BACKGROUND == "REMOVING_BACKGROUND"
SUCCESS == "SUCCESS"
ERROR == "ERROR"

Init ==
    /\ status = IDLE
    /\ uploadedImage = Null
    /\ prompt = PromptVintage
    /\ influence = 50
    /\ characterDescription = <<>>
    /\ sceneAction = <<>>
    /\ quality = "standard"
    /\ generatedImages = <<>>
    /\ errorMessage = <<>>
    /\ dialogOpen = FALSE
    /\ apiKey \in BOOLEAN
    /\ now = 0
    /\ calls = <<>>
    /\ done = NoCall
    /\ successLog = <<>>

isProcessing == status = GENERATING \/ status = REMOVING_BACKGROUND \/ status = UPLOADING

\* the sequence without its i-th element
Without(seq, i) == SubSeq(seq, 1, i - 1) \o SubSeq(seq, i + 1, Len(seq))

-----------------------------------------------------------------------------
(* Direct calls of the two service functions *)

callGenerate(base64Data, mimeType, p, infl, cd, sa, q) ==
    /\ calls = <<>>
    /\ calls' = << GenCall(base64Data, mimeType, p, infl, cd, sa, q) >>
    /\ done' = NoCall
    /\ UNCHANGED <<appVars, apiKey>>

returnGenerate(reply) ==
    /\ calls /= <<>>
    /\ calls[1].op = "gen"
    /\ calls[1].sent = (reply /= NoReply)
    /\ done' = [op |-> "gen", call |-> calls[1], reply |-> reply,
                outcome |-> GenerateOutcome(apiKey, reply)]
    /\ calls' = <<>>
    /\ UNCHANGED <<appVars, apiKey>>

callRemoveBackground(base64Data, mimeType) ==
    /\ calls = <<>>
    /\ calls' = << BgCall(base64Data, mimeType) >>
    /\ done' = NoCall
    /\ UNCHANGED <<appVars, apiKey>>

returnRemoveBackground(reply) ==
    /\ calls /= <<>>
    /\ calls[1].op = "bg"
    /\ calls[1].sent = (reply /= NoReply)
    /\ done' = [op |-> "bg", call |-> calls[1], reply |-> reply,
                outcome |-> RemoveBackgroundOutcome(apiKey, reply)]
    /\ calls' = <<>>
    /\ UNCHANGED <<appVars, apiKey>>

\* the replies a call may get: none when no request was sent
RepliesTo(call) ==
    IF call.sent
    THEN Replies \cup { EchoReply(call.request), EchoReplyNoMime(call.request) }
    ELSE { NoReply }

NextBuilder ==
    /\ calls = <<>>
    /\ \E b \in ImageArgs, m \in Mimes, p \in WidePrompts, i \in WideInfluences,
          cd \in WideTexts, sa \in WideTexts, q \in Qualities :
           callGenerate(b, m, p, i, cd, sa, q)

SpecBuilder == Init /\ [][NextBuilder]_vars

\* a behaviour of SpecCall is one call and its return
callGenerateNarrow ==
    /\ calls = <<>>
    /\ done = NoCall
    /\ \E b \in ImageArgs, m \in Mimes, i \in NarrowInfluences, cd \in NarrowTexts,
          q \in Qualities :
           callGenerate(b, m, PromptVintage, i, cd, <<>>, q)

callRemoveBackgroundAny ==
    /\ calls = <<>>
    /\ done = NoCall
    /\ \E b \in ImageArgs, m \in Mimes : callRemoveBackground(b, m)

returnGenerateAny ==
    /\ calls /= <<>>
    /\ calls[1].op = "gen"
    /\ \E reply \in RepliesTo(calls[1]) : returnGenerate(reply)

returnRemoveBackgroundAny ==
    /\ calls /= <<>>
    /\ calls[1].op = "bg"
    /\ \E reply \in RepliesTo(calls[1]) : returnRemoveBackground(reply)

NextCall ==
    \/ callGenerateNarrow
    \/ returnGenerateAny
    \/ callRemoveBackgroundAny
    \/ returnRemoveBackgroundAny

SpecCall == Init /\ [][NextCall]_vars

-----------------------------------------------------------------------------
(* The App component.  A handler runs up to its await in one step; the rest  *)
(* of it runs in a second step, when the awaited call settles.  The file     *)
(* chooser is modal: while it is open the page takes no other input.         *)

\* reader.readAsDataURL(file)
fileToBase64(file) == DataUri(file.type, file.payload)

\* URL.createObjectURL(file)
ObjectUrl(file) == <<"blob:", file.name>>

\* triggerFileInput without the isProcessing guard of its two controls
triggerFileInput_Unguarded ==
    /\ ~dialogOpen
    /\ dialogOpen' = TRUE
    /\ UNCHANGED <<status, uploadedImage, prompt, influence, characterDescription,
                   sceneAction, quality, generatedImages, errorMessage, apiKey, now,
                   calls, done, successLog>>

\* the upload area and the "Change Image" button
triggerFileInput ==
    /\ ~isProcessing
    /\ ~dialogOpen
    /\ dialogOpen' = TRUE
    /\ UNCHANGED <<status, uploadedImage, prompt, influence, characterDescription,
                   sceneAction, quality, generatedImages, errorMessage, apiKey, now,
                   calls, done, successLog>>

\* the chooser is closed without a file: no change event
dismissFileDialog ==
    /\ dialogOpen
    /\ dialogOpen' = FALSE
    /\ UNCHANGED <<status, uploadedImage, prompt, influence, characterDescription,
                   sceneAction, quality, generatedImages, errorMessage, apiKey, now,
                   calls, done, successLog>>

\* the change event of the file input, up to await fileToBase64(file)
handleFileSelect(file) ==
    /\ dialogOpen
    /\ dialogOpen' = FALSE
    /\ IF ~StartsWith(file.type, <<"image/">>)
       THEN /\ errorMessage' = <<"Please upload a valid image file (JPG or PNG).">>
            /\ UNCHANGED <<status, calls>>
       ELSE IF file.size > MaxFileSize
       THEN /\ errorMessage' = <<"File size should be less than 5MB.">>
            /\ UNCHANGED <<status, calls>>
       ELSE /\ status' = UPLOADING
            /\ errorMessage' = <<>>
            /\ calls' = Append(calls, [op |-> "read", file |-> file])
    /\ UNCHANGED <<uploadedImage, prompt, influence, characterDescription, sceneAction,
                   quality, generatedImages, apiKey, now, done, successLog>>

\* fileReadSettled whose catch block does not set the status
fileReadSettled_NoErrorStatus(i, loaded) ==
    /\ i \in 1..Len(calls)
    /\ calls[i].op = "read"
    /\ calls' = Without(calls, i)
    /\ IF loaded
       THEN /\ uploadedImage' = [file |-> calls[i].file,
                                 previewUrl |-> ObjectUrl(calls[i].file),
                                 base64 |-> fileToBase64(calls[i].file),
                                 mimeType |-> calls[i].file.type]
            /\ status' = IDLE
            /\ UNCHANGED errorMessage
       ELSE /\ errorMessage' = <<"Failed to process image. Please try again.">>
            /\ UNCHANGED <<status, uploadedImage>>
    /\ UNCHANGED <<prompt, influence, characterDescription, sceneAction, quality,
                   generatedImages, dialogOpen, apiKey, now, done, successLog>>

\* handleFileSelect after the await: the reader's onload or onerror
fileReadSettled(i, loaded) ==
    /\ i \in 1..Len(calls)
    /\ calls[i].op = "read"
    /\ calls' = Without(calls, i)
    /\ IF loaded
       THEN /\ uploadedImage' = [file |-> calls[i].file,
                                 previewUrl |-> ObjectUrl(calls[i].file),
                                 base64 |-> fileToBase64(calls[i].file),
                                 mimeType |-> calls[i].file.type]
            /\ status' = IDLE
            /\ UNCHANGED errorMessage
       ELSE /\ errorMessage' = <<"Failed to process image. Please try again.">>
            /\ status' = ERROR
            /\ UNCHANGED uploadedImage
    /\ UNCHANGED <<prompt, influence, characterDescription, sceneAction, quality,
                   generatedImages, dialogOpen, apiKey, now, done, successLog>>

\* the "Remove Background" button, up to await removeBackground(...)
handleBackgroundRemoval ==
    /\ uploadedImage /= Null
    /\ ~isProcessing
    /\ ~dialogOpen
    /\ status' = REMOVING_BACKGROUND
    /\ errorMessage' = <<>>
    /\ calls' = Append(calls, BgCall(uploadedImage.base64, uploadedImage.mimeType))
    /\ UNCHANGED <<uploadedImage, prompt, influence, characterDescription, sceneAction,
                   quality, generatedImages, dialogOpen, apiKey, now, done, successLog>>

\* UploadedFromResult storing the whole data URI as base64
UploadedFromResult_WholeUri(imageUrl) ==
    LET parts == Split(imageUrl, <<",">>)
        meta == parts[1]
        mime == Split(Split(meta, <<":">>)[2], <<";">>)[1]
    IN  [previewUrl |-> imageUrl, base64 |-> imageUrl, mimeType |-> mime]

\* the UploadedFile made of a result of removeBackground
UploadedFromResult(imageUrl) ==
    LET parts == Split(imageUrl, <<",">>)
        meta == parts[1]
        base64Data == parts[2]
        mime == Split(Split(meta, <<":">>)[2], <<";">>)[1]
    IN  [previewUrl |-> imageUrl, base64 |-> base64Data, mimeType |-> mime]

\* handleBackgroundRemoval after the await
backgroundRemovalSettled(i, reply) ==
    /\ i \in 1..Len(calls)
    /\ calls[i].op = "bg"
    /\ calls[i].sent = (reply /= NoReply)
    /\ calls' = Without(calls, i)
    /\ LET bgResult == RemoveBackgroundOutcome(apiKey, reply)
       IN  IF bgResult.ok
           THEN /\ uploadedImage' = UploadedFromResult(bgResult.imageUrl)
                /\ status' = IDLE
                /\ UNCHANGED errorMessage
           ELSE /\ status' = ERROR
                /\ errorMessage' = OrElse(bgResult.message, MsgBgFailed)
                /\ UNCHANGED uploadedImage
    /\ UNCHANGED <<prompt, influence, characterDescription, sceneAction, quality,
                   generatedImages, dialogOpen, apiKey, now, done, successLog>>

\* the "Generate Artwork" button, up to await generateStylizedImage(...)
handleGenerate ==
    /\ uploadedImage /= Null
    /\ ~isProcessing
    /\ ~dialogOpen
    /\ now < MaxGenerations
    /\ status' = GENERATING
    /\ errorMessage' = <<>>
    /\ calls' = Append(calls, GenCall(uploadedImage.base64, uploadedImage.mimeType, prompt,
                                      influence, characterDescription, sceneAction, quality))
    /\ UNCHANGED <<uploadedImage, prompt, influence, characterDescription, sceneAction,
                   quality, generatedImages, dialogOpen, apiKey, now, done, successLog>>

\* KeepLast appending the new image instead of prepending it
KeepLast_Append(newImage, prev) == Slice0(prev \o <<newImage>>, 4)

\* setGeneratedImages(prev => [newImage, ...prev].slice(0, 4))
KeepLast(newImage, prev) == Slice0(<<newImage>> \o prev, 4)

\* generateSettled whose catch block also clears the history
generateSettled_ClearsHistory(i, reply) ==
    /\ i \in 1..Len(calls)
    /\ calls[i].op = "gen"
    /\ calls[i].sent = (reply /= NoReply)
    /\ calls' = Without(calls, i)
    /\ LET genResult == GenerateOutcome(apiKey, reply)
           newImage == [id |-> ToString(now + 1), imageUrl |-> genResult.imageUrl,
                        timestamp |-> now + 1, promptUsed |-> calls[i].prompt]
       IN  IF genResult.ok
           THEN /\ now' = now + 1
                /\ generatedImages' = KeepLast(newImage, generatedImages)
                /\ successLog' = Append(successLog, newImage)
                /\ status' = SUCCESS
                /\ UNCHANGED errorMessage
           ELSE /\ status' = ERROR
                /\ errorMessage' = OrElse(genResult.message,
                                          <<"An error occurred during generation.">>)
                /\ generatedImages' = <<>>
                /\ UNCHANGED <<now, successLog>>
    /\ UNCHANGED <<uploadedImage, prompt, influence, characterDescription, sceneAction,
                   quality, dialogOpen, apiKey, done>>

\* handleGenerate after the await; the clock has moved on since the last generation
generateSettled(i, reply) ==
    /\ i \in 1..Len(calls)
    /\ calls[i].op = "gen"
    /\ calls[i].sent = (reply /= NoReply)
    /\ calls' = Without(calls, i)
    /\ LET genResult == GenerateOutcome(apiKey, reply)
           newImage == [id |-> ToString(now + 1), imageUrl |-> genResult.imageUrl,
                        timestamp |-> now + 1, promptUsed |-> calls[i].prompt]
       IN  IF genResult.ok
           THEN /\ now' = now + 1
                /\ generatedImages' = KeepLast(newImage, generatedImages)
                /\ successLog' = Append(successLog, newImage)
                /\ status' = SUCCESS
                /\ UNCHANGED errorMessage
           ELSE /\ status' = ERROR
                /\ errorMessage' = OrElse(genResult.message,
                                          <<"An error occurred during generation.">>)
                /\ UNCHANGED <<now, generatedImages, successLog>>
    /\ UNCHANGED <<uploadedImage, prompt, influence, characterDescription, sceneAction,
                   quality, dialogOpen, apiKey, done>>

\* the range input
setInfluence(v) ==
    /\ ~isProcessing
    /\ ~dialogOpen
    /\ influence' = v
    /\ UNCHANGED <<status, uploadedImage, prompt, characterDescription, sceneAction, quality,
                   generatedImages, errorMessage, dialogOpen, apiKey, now, calls, done,
                   successLog>>

\* the text input
setCharacterDescription(v) ==
    /\ ~isProcessing
    /\ ~dialogOpen
    /\ characterDescription' = v
    /\ UNCHANGED <<status, uploadedImage, prompt, influence, sceneAction, quality,
                   generatedImages, errorMessage, dialogOpen, apiKey, now, calls, done,
                   successLog>>

\* the first textarea
setSceneAction(v) ==
    /\ ~isProcessing
    /\ ~dialogOpen
    /\ sceneAction' = v
    /\ UNCHANGED <<status, uploadedImage, prompt, influence, characterDescription, quality,
                   generatedImages, errorMessage, dialogOpen, apiKey, now, calls, done,
                   successLog>>

\* the second textarea
setPrompt(v) ==
    /\ ~isProcessing
    /\ ~dialogOpen
    /\ prompt' = v
    /\ UNCHANGED <<status, uploadedImage, influence, characterDescription, sceneAction,
                   quality, generatedImages, errorMessage, dialogOpen, apiKey, now, calls,
                   done, successLog>>

\* the preset buttons under the second textarea, which carry no disabled attribute
presetPrompt(v) ==
    /\ ~dialogOpen
    /\ prompt' = v
    /\ UNCHANGED <<status, uploadedImage, influence, characterDescription, sceneAction,
                   quality, generatedImages, errorMessage, dialogOpen, apiKey, now, calls,
                   done, successLog>>

\* the select
setQuality(v) ==
    /\ ~isProcessing
    /\ ~dialogOpen
    /\ quality' = v
    /\ UNCHANGED <<status, uploadedImage, prompt, influence, characterDescription,
                   sceneAction, generatedImages, errorMessage, dialogOpen, apiKey, now,
                   calls, done, successLog>>

\* the replies a call of a session may get: none when no request was sent
SessionRepliesTo(call, replies) == IF call.sent THEN replies ELSE { NoReply }

Next ==
    \/ triggerFileInput
    \/ dismissFileDialog
    \/ \E file \in Files : handleFileSelect(file)
    \/ \E i \in 1..Len(calls), loaded \in BOOLEAN : fileReadSettled(i, loaded)
    \/ handleBackgroundRemoval
    \/ \E i \in 1..Len(calls) :
         /\ calls[i].op = "bg"
         /\ \E reply \in SessionRepliesTo(calls[i], SessionBgReplies) :
              backgroundRemovalSettled(i, reply)
    \/ handleGenerate
    \/ \E i \in 1..Len(calls) :
         /\ calls[i].op = "gen"
         /\ \E reply \in SessionRepliesTo(calls[i], SessionGenReplies) :
              generateSettled(i, reply)
    \/ \E v \in SliderValues : setInfluence(v)
    \/ \E v \in TypedDescriptions : setCharacterDescription(v)
    \/ \E v \in TypedScenes : setSceneAction(v)
    \/ \E v \in TypedPrompts : setPrompt(v)
    \/ \E v \in PresetPrompts : presetPrompt(v)
    \/ \E v \in Qualities : setQuality(v)

Spec == Init /\ [][Next]_vars

-----------------------------------------------------------------------------
(* Properties of the request of generateStylizedImage (SpecBuilder) *)

\* the calls of generateStylizedImage that passed the API key check
BuiltCalls == { k \in 1..Len(calls) : calls[k].op = "gen" /\ calls[k].sent }

\* the instruction of the call holds this guidance sentence
Selects(call, sentence) ==
    Includes(call.request.text, <<"IMPORTANT INSTRUCTION: ">> \o sentence)

\* C1: for every influence in 0..100 the instruction holds exactly one of the four
\* guidance sentences: "ignore" iff influence = 0, "loose reference" iff
\* 0 < influence < 30, "maintain" iff 30 <= influence < 70, "strictly adhere" iff
\* influence >= 70; 30 and 70 belong to the upper band.
C1_GuidanceBands ==
    \A k \in BuiltCalls :
        LET c == calls[k]
            i == c.influence
        IN  i \in 0..100 =>
              /\ Selects(c, GuidanceIgnore) <=> (i = 0)
              /\ Selects(c, GuidanceLoose) <=> (0 < i /\ i < 30)
              /\ Selects(c, GuidanceMaintain) <=> (30 <= i /\ i < 70)
              /\ Selects(c, GuidanceStrict) <=> (i >= 70)
              /\ Cardinality({ g \in { GuidanceIgnore, GuidanceLoose, GuidanceMaintain,
                                       GuidanceStrict } : Selects(c, g) }) = 1

\* a call at the boundary 30, which selects the "maintain" sentence
C1_Witness ==
    \E k \in BuiltCalls : calls[k].influence = 30 /\ Selects(calls[k], GuidanceMaintain)

\* some token of s is not white space
NonBlank(s) == \E k \in 1..Len(s) : s[k] \notin WhiteSpace

\* the instruction made of the sections, written out in their order
Instruction(withCharacter, withScene, c) ==
    (IF withCharacter
     THEN <<"Subject Description: ">> \o c.characterDescription \o <<".", "\n\n">>
     ELSE <<>>)
    \o (IF withScene
        THEN <<"Scene & Action: ">> \o c.sceneActionDescription \o <<".", "\n\n">>
        ELSE <<>>)
    \o <<"Style & Atmosphere: ">> \o c.prompt
    \o <<". ", "Aesthetic: Vintage, sepia-toned, or aged photograph look with high detail and film grain.">>
    \o <<"\n\n", "IMPORTANT INSTRUCTION: ">>
    \o (CHOOSE g \in { GuidanceIgnore, GuidanceLoose, GuidanceMaintain, GuidanceStrict } :
            Selects(c, g))
    \o <<" (Structural Adherence: ", ToString(c.influence), "%)">>

\* C6 as stated: the instruction is the character section iff characterDescription
\* is non-empty, the scene section iff sceneAction is non-empty, the style section
\* and last the guidance sentence with the influence percentage.
C6_SectionsIffNonEmpty ==
    \A k \in BuiltCalls :
        calls[k].request.text =
            Instruction(calls[k].characterDescription /= <<>>,
                        calls[k].sceneActionDescription /= <<>>, calls[k])

\* C6 as amended: the instruction is the character section iff characterDescription
\* holds something other than white space, the scene section iff sceneAction holds
\* something other than white space, the style section and last the guidance
\* sentence with the influence percentage; a section holds its field untrimmed.
C6_SectionsIffNonBlank ==
    \A k \in BuiltCalls :
        calls[k].request.text =
            Instruction(NonBlank(calls[k].characterDescription),
                        NonBlank(calls[k].sceneActionDescription), calls[k])

\* a call with a blank character description and a scene: the instruction starts
\* with the scene section
C6_Witness ==
    \E k \in BuiltCalls :
        /\ calls[k].characterDescription = <<" ">>
        /\ calls[k].sceneActionDescription = <<" ", "girl">>
        /\ StartsWith(calls[k].request.text, <<"Scene & Action: ", " ", "girl", ".">>)

-----------------------------------------------------------------------------
(* Properties of a call of generateStylizedImage and its return (SpecCall) *)

\* a call of generateStylizedImage has returned or thrown
GenDone == done.op = "gen"

\* the tokens of a message
Tokens(m) == { m[k] : k \in 1..Len(m) }

\* the rules of the classification, in their order: the tokens looked for and the
\* message re-thrown
Rules ==
    << [markers |-> {"Requested entity was not found"},
        message |-> <<"Requested entity was not found.">>],
       [markers |-> {"403", "API key"},
        message |-> <<"Invalid or missing API Key. Please check your .env file.">>],
       [markers |-> {"400"},
        message |-> <<"The request was invalid. The image might be too large or the prompt flagged.">>],
       [markers |-> {"503", "Overloaded"},
        message |-> <<"The service is currently overloaded. Please try again in a moment.">>],
       [markers |-> {"SAFETY"},
        message |-> <<"Generation blocked by safety filters. Please adjust your prompt or image.">>] >>

Matching(m) == { r \in 1..Len(Rules) : Rules[r].markers \cap Tokens(m) /= {} }

FirstMatching(m) == CHOOSE r \in Matching(m) : \A q \in Matching(m) : r <= q

\* C2 as stated: the message re-thrown for an error is that of the first matching
\* rule (entity not found; 403 or "API key"; 400; 503 or "Overloaded"; SAFETY), and
\* the original message when no rule matches.
C2_FirstRuleElseOriginal ==
    (GenDone /\ ~done.outcome.ok) =>
        done.outcome.message =
            IF Matching(done.outcome.caught) /= {}
            THEN Rules[FirstMatching(done.outcome.caught)].message
            ELSE done.outcome.caught

\* C2 as amended: the message re-thrown for an error is that of the first matching
\* rule, and when no rule matches the original message, or "An unknown error
\* occurred." for an error that carries no message.
C2_FirstRuleElseOriginalOrDefault ==
    (GenDone /\ ~done.outcome.ok) =>
        done.outcome.message =
            IF Matching(done.outcome.caught) /= {}
            THEN Rules[FirstMatching(done.outcome.caught)].message
            ELSE IF done.outcome.caught /= <<>>
            THEN done.outcome.caught
            ELSE <<"An unknown error occurred.">>

\* a rejection that reads both "403" and the entity-not-found text was re-thrown as
\* entity not found
C2_Witness ==
    /\ GenDone
    /\ done.reply = [kind |-> "reject",
                     message |-> <<"403", "Requested entity was not found">>]
    /\ done.outcome.message = <<"Requested entity was not found.">>

\* the parts of the first candidate of the response of the call that returned
FirstParts ==
    IF done.reply.kind = "response" /\ Len(done.reply.candidates) > 0
       /\ done.reply.candidates[1].hasParts
    THEN done.reply.candidates[1].parts
    ELSE <<>>

ImageIndexes == { k \in 1..Len(FirstParts) : FirstParts[k].kind = "image" }
TextIndexes == { k \in 1..Len(FirstParts) : FirstParts[k].kind = "text" }
SaidIndexes == { k \in TextIndexes : FirstParts[k].text /= <<>> }

Last(indexes) == CHOOSE k \in indexes : \A j \in indexes : j <= k

\* C3 as stated: a response without an inline image part makes the call fail, with
\* "Model declined to generate image: " and the recorded text when a text was
\* found, whatever the text, and with the empty-response message otherwise.
C3_DeclinedOrEmpty ==
    (GenDone /\ done.reply.kind = "response" /\ ImageIndexes = {}) =>
        /\ ~done.outcome.ok
        /\ done.outcome.message =
             IF SaidIndexes /= {}
             THEN <<"Model declined to generate image: ">> \o FirstParts[Last(SaidIndexes)].text
             ELSE <<"The model returned an empty response. Please try a different prompt or image.">>

\* the data URI of an image part
UriOf(part) ==
    <<"data", ":">>
    \o (IF part.mimeType = <<>> THEN <<"image/", "png">> ELSE part.mimeType)
    \o <<";", "base64", ",">> \o part.data

\* C4 as stated: of a response with a candidate, the call gives the last inline
\* image part of the first candidate as the image and the last text part of the
\* first candidate as the text, and fails when the first candidate has no image.
C4_LastImageLastTextPart ==
    (GenDone /\ done.reply.kind = "response" /\ Len(done.reply.candidates) > 0) =>
        /\ done.outcome.ok <=> (ImageIndexes /= {})
        /\ done.outcome.ok =>
             /\ done.outcome.imageUrl = UriOf(FirstParts[Last(ImageIndexes)])
             /\ done.outcome.text =
                  IF TextIndexes /= {} THEN FirstParts[Last(TextIndexes)].text ELSE <<>>

\* C4 as amended: of a response with a candidate, the call gives the last inline
\* image part of the first candidate as the image and the last text part of the
\* first candidate whose text is not empty as the text (no text when there is
\* none), and fails when the first candidate has no image.
C4_LastImageLastSaidText ==
    (GenDone /\ done.reply.kind = "response" /\ Len(done.reply.candidates) > 0) =>
        /\ done.outcome.ok <=> (ImageIndexes /= {})
        /\ done.outcome.ok =>
             /\ done.outcome.imageUrl = UriOf(FirstParts[Last(ImageIndexes)])
             /\ done.outcome.text =
                  IF SaidIndexes /= {} THEN FirstParts[Last(SaidIndexes)].text ELSE <<>>

\* a response of two images with a text between them gave the second image
C4_Witness ==
    /\ GenDone
    /\ Len(FirstParts) = 3
    /\ ImageIndexes = {1, 3}
    /\ FirstParts[1] /= FirstParts[3]
    /\ SaidIndexes = {2}
    /\ done.outcome.ok
    /\ done.outcome.imageUrl = UriOf(FirstParts[3])

\* the image argument of the call is the payload, bare or in a data URI
Carries(call, payload) ==
    \/ call.base64Data = payload
    \/ \E m \in Mimes : call.base64Data = <<"data", ":">> \o m \o <<";", "base64", ",">> \o payload

\* the reply holds, as the only part of its only candidate, this image part
EchoesPart(part) ==
    /\ done.reply.kind = "response"
    /\ done.reply.candidates = << [hasParts |-> TRUE, parts |-> <<part>>] >>

\* C5: when the service sends back the inline image part it was sent, the result's
\* imageUrl is data:M;base64,P for the payload P and mime type M of the call, the
\* image passed bare or as a data URI; when the part comes back without its mime
\* type the URI reads image/png.
C5_RoundTrip ==
    (GenDone /\ done.call.sent) =>
        \A payload \in Payloads :
            Carries(done.call, payload) =>
              /\ EchoesPart([kind |-> "image", data |-> done.call.request.data,
                             mimeType |-> done.call.mimeType]) =>
                   /\ done.outcome.ok
                   /\ done.outcome.imageUrl =
                        <<"data", ":">> \o done.call.mimeType \o <<";", "base64", ",">>
                        \o payload
              /\ EchoesPart([kind |-> "image", data |-> done.call.request.data,
                             mimeType |-> <<>>]) =>
                   /\ done.outcome.ok
                   /\ done.outcome.imageUrl =
                        <<"data", ":", "image/", "png", ";", "base64", ",">> \o payload

\* an image passed as a data URI came back as the data URI of its payload
C5_Witness ==
    /\ GenDone
    /\ done.call.sent
    /\ done.call.base64Data = <<"data", ":", "image/", "jpeg", ";", "base64", ",", "B", "A">>
    /\ done.call.mimeType = <<"image/", "jpeg">>
    /\ EchoesPart([kind |-> "image", data |-> done.call.request.data,
                   mimeType |-> <<"image/", "jpeg">>])
    /\ done.outcome.imageUrl = <<"data", ":", "image/", "jpeg", ";", "base64", ",", "B", "A">>

-----------------------------------------------------------------------------
(* Properties of a session of the app (Spec) *)

\* C7: the result history never holds more than 4 entries; its first entry is the
\* most recent successful generation and the others are the successes before it,
\* newest first, so that the entry dropped when a fifth arrives is the oldest.
C7_HistoryNewestFirst ==
    /\ Len(generatedImages) <= 4
    /\ Len(generatedImages) = (IF Len(successLog) < 4 THEN Len(successLog) ELSE 4)
    /\ \A k \in 1..Len(generatedImages) :
         generatedImages[k] = successLog[Len(successLog) + 1 - k]

\* a fifth generation has succeeded: the history holds the last four, the first
\* success is gone
C7_Witness ==
    /\ Len(successLog) = 5
    /\ Len(generatedImages) = 4
    /\ generatedImages[1] = successLog[5]
    /\ \A k \in 1..4 : generatedImages[k] /= successLog[1]

\* a step starts an asynchronous call
StartsCall == Len(calls') > Len(calls)

\* C8: at most one asynchronous call (file read, removeBackground,
\* generateStylizedImage) is outstanding, and no step starts a call while status is
\* UPLOADING, REMOVING_BACKGROUND or GENERATING.
C8_OneCallAtATime ==
    /\ [](Len(calls) <= 1)
    /\ [][StartsCall => ~isProcessing]_vars

\* a background removal is outstanding, alone, after an earlier generation
C8_Witness ==
    /\ Len(calls) = 1
    /\ calls[1].op = "bg"
    /\ status = REMOVING_BACKGROUND
    /\ Len(successLog) > 0

\* C9 as stated: while status is UPLOADING, REMOVING_BACKGROUND or GENERATING and
\* the call has not settled, no step changes the uploaded image, the prompt, the
\* influence, the character description, the scene/action text or the quality.
C9_RequestStateFrozen ==
    [][(isProcessing /\ isProcessing') =>
         UNCHANGED <<uploadedImage, prompt, influence, characterDescription, sceneAction,
                     quality>>]_vars

Base64Alphabet == { "A", "B" }

\* the requests that are with the remote service
RequestsInFlight ==
    { calls[k].request : k \in { j \in 1..Len(calls) : calls[j].op \in {"gen", "bg"}
                                                       /\ calls[j].sent } }

\* C10: the image data of every request sent by generateStylizedImage or
\* removeBackground is the raw base64 payload, without a "base64," prefix, whether
\* the stored image is an upload (a data URI) or a result of a background removal
\* (a bare payload).
C10_RawPayloadSent ==
    \A r \in RequestsInFlight :
        /\ \A k \in 1..Len(r.data) : r.data[k] \in Base64Alphabet
        /\ ~Includes(r.data, <<"base64", ",">>)
        /\ "file" \in DOMAIN uploadedImage => r.data = uploadedImage.file.payload
        /\ "file" \notin DOMAIN uploadedImage => r.data = uploadedImage.base64

\* a generation is outstanding for an image that a background removal returned,
\* itself made from an upload
C10_Witness ==
    /\ Len(calls) = 1
    /\ calls[1].op = "gen"
    /\ calls[1].sent
    /\ "file" \notin DOMAIN uploadedImage
    /\ uploadedImage /= Null
    /\ calls[1].request.data = <<"A", "B">>

-----------------------------------------------------------------------------
(* Properties of a call without an API key and of removeBackground (SpecCall) *)

\* C11: without an API key a call of generateStylizedImage or removeBackground
\* sends no request and fails with the missing-key message, which reaches the
\* caller as it is, neither classified as another kind of error nor wrapped.
C11_MissingKeyAsIs ==
    /\ ~apiKey => \A k \in 1..Len(calls) : ~calls[k].sent /\ calls[k].request = [none |-> TRUE]
    /\ (~apiKey /\ done.op \in {"gen", "bg"}) =>
         /\ ~done.call.sent
         /\ done.call.request = [none |-> TRUE]
         /\ done.reply.kind = "none"
         /\ ~done.outcome.ok
         /\ done.outcome.message =
              <<"API Key", " is missing. Please configure it in your .env file.">>

\* a call of generateStylizedImage without a key has thrown the missing-key message
C11_Witness ==
    /\ ~apiKey
    /\ done.op = "gen"
    /\ ~done.call.sent
    /\ done.outcome.message =
         <<"API Key", " is missing. Please configure it in your .env file.">>

\* a call of removeBackground, its request sent, has returned or thrown
BgDone == done.op = "bg" /\ done.call.sent

\* the messages generateStylizedImage gives the classified kinds of error
ClassifiedMessages == { Rules[r].message : r \in 2..Len(Rules) }

\* C12: a failure of removeBackground whose message holds "Requested entity was not
\* found" is re-thrown as that fixed message; every other failure of a request
\* (a rejection with any text, a response without an image part) is re-thrown as
\* "Background removal failed: " and the message of the failure, never as one of
\* the classified messages of generateStylizedImage.
C12_EntityElseWrapped ==
    BgDone =>
        /\ done.outcome.ok <=> (ImageIndexes /= {})
        /\ ~done.outcome.ok =>
             LET original == IF done.reply.kind = "reject"
                             THEN done.reply.message
                             ELSE <<"Failed to remove background.">>
             IN  /\ done.outcome.message =
                      IF "Requested entity was not found" \in Tokens(original)
                      THEN <<"Requested entity was not found.">>
                      ELSE <<"Background removal failed: ">> \o original
                 /\ done.outcome.message \notin ClassifiedMessages

\* a rejection that reads 403 was re-thrown wrapped
C12_Witness ==
    /\ BgDone
    /\ done.reply = [kind |-> "reject", message |-> <<"403">>]
    /\ done.outcome.message = <<"Background removal failed: ", "403">>

-----------------------------------------------------------------------------
(* Properties of the settling of calls in a session (Spec) *)

\* a step in which the one outstanding call, of this kind, settles
Settles(op) == Len(calls) = 1 /\ calls[1].op = op /\ calls' = <<>>

\* the UploadedFile an image part of a response makes
FromPart(part) ==
    [previewUrl |-> UriOf(part),
     base64 |-> part.data,
     mimeType |-> IF part.mimeType = <<>> THEN <<"image/", "png">> ELSE part.mimeType]

\* C13: a background removal that succeeds replaces the uploaded image as a whole:
\* previewUrl is the returned data URI, base64 the returned payload, mimeType the
\* mime type of the returned part (image/png when it has none), no other field
\* (the file handle) stays, and status is IDLE; a generation started later sends
\* that payload and that mime type.
C13_ReplacedByResult ==
    /\ [][(Settles("bg") /\ status' /= ERROR) =>
            /\ status' = IDLE
            /\ \E part \in ImageParts : uploadedImage' = FromPart(part)]_vars
    /\ [](\A k \in 1..Len(calls) :
            (calls[k].op = "gen" /\ calls[k].sent /\ "file" \notin DOMAIN uploadedImage) =>
                \E part \in ImageParts :
                    /\ uploadedImage = FromPart(part)
                    /\ calls[k].request.data = part.data
                    /\ calls[k].request.mimeType = uploadedImage.mimeType)

\* a generation is outstanding for the result of a background removal whose part
\* had no mime type: it sends the payload as image/png
C13_Witness ==
    /\ Len(calls) = 1
    /\ calls[1].op = "gen"
    /\ calls[1].sent
    /\ uploadedImage = [previewUrl |-> <<"data", ":", "image/", "png", ";", "base64", ",", "B">>,
                        base64 |-> <<"B">>,
                        mimeType |-> <<"image/", "png">>]
    /\ calls[1].request.data = <<"B">>
    /\ calls[1].request.mimeType = <<"image/", "png">>

\* the kind of call a processing status waits for
AwaitedOp ==
    IF status = GENERATING THEN "gen"
    ELSE IF status = REMOVING_BACKGROUND THEN "bg"
    ELSE "read"

\* C14: when its call settles, a generation ends with status SUCCESS and its result
\* first in the history, or with status ERROR and an error message; a background
\* removal and a file read end with status IDLE, or with status ERROR and an error
\* message; status is UPLOADING, REMOVING_BACKGROUND or GENERATING only while the
\* call of that handler is outstanding.
C14_SettledLeavesProcessing ==
    /\ [](isProcessing => (Len(calls) = 1 /\ calls[1].op = AwaitedOp))
    /\ [][/\ Settles("gen") =>
               \/ /\ status' = SUCCESS
                  /\ Len(successLog') = Len(successLog) + 1
                  /\ generatedImages'[1] = successLog'[Len(successLog')]
               \/ status' = ERROR /\ errorMessage' /= <<>>
          /\ Settles("bg") => (status' = IDLE \/ (status' = ERROR /\ errorMessage' /= <<>>))
          /\ Settles("read") => (status' = IDLE \/ (status' = ERROR /\ errorMessage' /= <<>>))
         ]_vars

\* a background removal has ended with status ERROR and the entity-not-found
\* message, after a generation that succeeded
C14_Witness ==
    /\ calls = <<>>
    /\ status = ERROR
    /\ errorMessage = <<"Requested entity was not found.">>
    /\ Len(successLog) > 0

\* C15: a call of generateStylizedImage or removeBackground that fails sets status
\* to ERROR and errorMessage to a message that is not empty, and leaves the result
\* history, the uploaded image and the fields of the form as they are.
C15_FailureFrame ==
    [][((Settles("gen") \/ Settles("bg")) /\ status' = ERROR) =>
         /\ errorMessage' /= <<>>
         /\ UNCHANGED <<uploadedImage, generatedImages, prompt, influence,
                        characterDescription, sceneAction, quality, dialogOpen, now,
                        successLog>>]_vars

\* a generation has failed as overloaded with two results in the history
C15_Witness ==
    /\ calls = <<>>
    /\ status = ERROR
    /\ errorMessage = <<"The service is currently overloaded. Please try again in a moment.">>
    /\ Len(generatedImages) = 2
    /\ uploadedImage /= Null

====
